---- MODULE Spec2Model ----
(***************************************************************************)
(* Model of the Hacker News summarizer: the concurrent ingestion stage     *)
(* (components/hn_fetcher.py, HackerNewsNewestFetcher) and the sequential  *)
(* summarization loop (pipeline.py, DocumentLoopProcessor).                *)
(*                                                                         *)
(* Python values that can take several shapes (a parsed JSON body, an      *)
(* Optional[...]) are tagged records: JNull is None / JSON null, JStr a    *)
(* string, JNum a number, JArr a list, JObj a dict whose present keys are  *)
(* the DOMAIN of its obj field.                                            *)
(***************************************************************************)
EXTENDS Integers, Sequences, FiniteSets, TLC

\* ---------------------------------------------------------------- bounds
\* Largest --last-k tried (the CLI allows 1..20).
MaxK == 2
\* Number of item IDs the feed can hold; the index answer is a list of
\* distinct IDs among them.
NumIds == 3
\* Largest number of documents handed to the summarization loop.
MaxDocs == 2

\* ------------------------------------------------------------ JSON values
JNull == [kind |-> "null"]
JStr(s) == [kind |-> "string", s |-> s]
JNum(n) == [kind |-> "number", n |-> n]
JArr(a) == [kind |-> "array", items |-> a]
JObj(o) == [kind |-> "object", obj |-> o]

\* Python truthiness of a value (`not details`, `if not html_content`).
Truthy(v) ==
    CASE v.kind = "null" -> FALSE
      [] v.kind = "string" -> v.s # ""
      [] v.kind = "number" -> v.n # 0
      [] v.kind = "array" -> v.items # <<>>
      [] v.kind = "object" -> DOMAIN v.obj # {}

\* key in dict
HasKey(v, k) == k \in DOMAIN v.obj

\* dict.get(key, default)
Get(v, k, default) == IF HasKey(v, k) THEN v.obj[k] ELSE default

\* ------------------------------------------------------------- the feed
\* The item IDs of the feed (101, 102, 103, ...).
IDs == 101 .. (100 + NumIds)

\* The url the item of an ID links to.
UrlOf(id) == IF id % 2 = 1 THEN "https://a.example" ELSE "https://b.example"

\* Injective sequences over S of length at most n.
InjSeqs(S, n) ==
    UNION { { s \in [1..m -> S] : \A i, j \in 1..m : i # j => s[i] # s[j] }
            : m \in 0..n }

Min(a, b) == IF a < b THEN a ELSE b

\* What a request can end in besides an answer: aiohttp.ClientError (network
\* failure, or the HTTP error status raise_for_status() turns into one),
\* asyncio.TimeoutError, and any other exception (a body that does not parse).
Errors == {"ClientError", "TimeoutError", "Exception"}

Answer(body) == [err |-> "none", body |-> body]
Failure(e) == [err |-> e, body |-> JNull]
\* The request has not ended yet.
Pending == [err |-> "pending", body |-> JNull]

\* Answers of the index endpoint: a list of distinct IDs, or a well-formed
\* body that is no list (JSON null, an error object).
IndexBodies ==
    { JArr(s) : s \in InjSeqs(IDs, NumIds) }
        \cup { JNull, JObj([error |-> JStr("Permission denied")]) }

IndexOutcomes == { Failure(e) : e \in Errors } \cup { Answer(b) : b \in IndexBodies }

\* Epoch seconds the item endpoint reports.
Epochs == {0, 3661}

\* datetime.fromtimestamp(t, tz=utc).isoformat(), for t within January 1970.
IsoFormat(t) ==
    [ year |-> 1970, month |-> 1, day |-> 1 + (t \div 86400),
      hour |-> (t % 86400) \div 3600, minute |-> (t % 3600) \div 60,
      second |-> t % 60, offset |-> "+00:00" ]

\* Answers of the item endpoint for one ID.
DetailBodies(id) ==
    { JNull,
      JObj(<<>>),
      JArr(<<id>>),
      JObj([type |-> JStr("job"), url |-> JStr(UrlOf(id))]),
      JObj([url |-> JStr(UrlOf(id))]),
      JObj([type |-> JStr("story")]),
      JObj([type |-> JStr("story"), url |-> JStr("")]),
      JObj([type |-> JStr("story"), url |-> JStr(UrlOf(id))]),
      JObj([type |-> JStr("story"), url |-> JStr(UrlOf(id)), time |-> JStr("soon")]) }
        \cup { JObj([type |-> JStr("story"), url |-> JStr(UrlOf(id)), time |-> JNum(t)])
               : t \in Epochs }

DetailOutcomes(id) ==
    { Failure(e) : e \in Errors } \cup { Answer(b) : b \in DetailBodies(id) }

\* Outcomes of fetching and extracting one article page: the page request
\* fails, or answers with html; trafilatura then faults or returns a value.
Texts == {"Text A"}

ArticleOutcomes ==
    { [err |-> e, html |-> "", fault |-> FALSE, extracted |-> JNull] : e \in Errors }
        \cup { [err |-> "none", html |-> "", fault |-> FALSE, extracted |-> JNull] }
        \cup { [err |-> "none", html |-> "<html>", fault |-> TRUE, extracted |-> JNull] }
        \cup { [err |-> "none", html |-> "<html>", fault |-> FALSE, extracted |-> x]
               : x \in {JNull, JStr("")} \cup { JStr(t) : t \in Texts } }

\* ------------------------------------------------------------------ state
VARIABLES
    last_k,          \* the argument of run
    pc,              \* run: "index", "gather", "propagating", "returned", "raised"
    session,         \* the aiohttp.ClientSession: "open" or "closed"
    opened,          \* history: how many sessions the run has opened
    requests,        \* history: the requests issued, for the index and per position
    index,           \* the outcome of the index request, once it has ended
    story_ids,       \* story_ids_to_process
    upc,             \* per position: where its _process_story coroutine is
    details,         \* per position: what _fetch_story_details returned
    article_text,    \* per position: what _extract_article_text returned
    processed,       \* per position: what _process_story returned
    order,           \* history: the positions in the order their units ended
    documents,       \* the documents of the returned dict
    in_documents,    \* DocumentLoopProcessor.run: its documents argument
    lpc,             \* per run of the loop: "idle", "for", "llm", "returned"
    pos,             \* per run of the loop: how many documents the for has taken
    results,         \* per run of the loop: its results list
    gen,             \* history, per run: the generation outcome of each document
    calls,           \* history, per run: the llm.run calls made for each document
    inflight,        \* history, per run: the llm.run calls that have not ended
    differ_at,       \* the one position at which runs a and b may differ (0: none)
    cli              \* main: where it is, its options, what it has echoed, how it ended

ingest_vars ==
    << last_k, pc, session, opened, requests, index, story_ids, upc, details, article_text,
       processed, order, documents >>

sum_vars == << in_documents, lpc, pos, results, gen, calls, inflight, differ_at >>

vars == << ingest_vars, sum_vars, cli >>

Positions == 1 .. Len(story_ids)

\* --------------------------------------------------- the code's functions
\* _fetch_story_details: every exception is caught and gives None.
FetchStoryDetails(o) == IF o.err # "none" THEN JNull ELSE o.body

\* _fetch_url: every exception is caught and gives None.
FetchUrl(o) == IF o.err # "none" THEN JNull ELSE JStr(o.html)

\* _extract_article_text: None for a failed or empty page, a fault of the
\* extractor, or an empty extraction.
ExtractArticleText(o) ==
    IF ~Truthy(FetchUrl(o)) THEN JNull
    ELSE IF o.fault THEN JNull
    ELSE IF ~Truthy(o.extracted) THEN JNull
    ELSE o.extracted

\* details.get("type") raises AttributeError on a value that is no dict.
GetTypeRaises(d) == Truthy(d) /\ d.kind # "object"

\* A filter that looks at the details being there and not at their type.
NotAStoryAnyType(d) == ~Truthy(d)

\* `not details or details.get("type") != "story"`
NotAStory(d) == ~Truthy(d) \/ Get(d, "type", JNull) # JStr("story")

\* A url filter that looks at the key being there and not at its value.
NoExternalUrlMissingOnly(d) == ~HasKey(d, "url")

\* `"url" not in details or not details["url"]`
NoExternalUrl(d) == ~HasKey(d, "url") \/ ~Truthy(d.obj["url"])

\* datetime.fromtimestamp raises TypeError for a time that is no number.
TimeRaises(d) == HasKey(d, "time") /\ d.obj["time"].kind # "number"

TimeIso(d) == IF HasKey(d, "time") THEN JObj(IsoFormat(d.obj["time"].n)) ELSE JNull

\* The Document _process_story builds.
MakeDocument(d, text, story_id) ==
    [ content |-> text.s,
      meta |-> [ title |-> Get(d, "title", JNull),
                 url |-> d.obj["url"].s,
                 score |-> Get(d, "score", JNum(0)),
                 descendants |-> Get(d, "descendants", JNum(0)),
                 by |-> Get(d, "by", JNull),
                 time_iso |-> TimeIso(d),
                 id |-> story_id ] ]

\* _process_story up to its second await: how the unit goes on once the
\* details have arrived.
AfterDetails(d) ==
    IF GetTypeRaises(d) THEN "raised"
    ELSE IF NotAStory(d) THEN "done"
    ELSE IF NoExternalUrl(d) THEN "done"
    ELSE IF TimeRaises(d) THEN "raised"
    ELSE "extract"

\* top_story_ids[:last_k] raises TypeError unless the body is a list.
SliceRaises(body) == body.kind # "array"

\* A slice that keeps the whole list.
SliceAll(body, k) == body.items

Slice(body, k) == SubSeq(body.items, 1, Min(k, Len(body.items)))

\* [doc for doc in processed_documents if doc is not None]
RECURSIVE NotNone(_)
NotNone(s) ==
    IF s = <<>> THEN <<>>
    ELSE IF Head(s) = JNull THEN NotNone(Tail(s))
    ELSE <<Head(s)>> \o NotNone(Tail(s))

\* The units' results in the order the units ended (as_completed).
GatheredAsCompleted == [k \in 1..Len(order) |-> processed[order[k]]]

\* asyncio.gather(*tasks): the units' results, in the order of the tasks.
Gathered == [i \in 1..Len(story_ids) |-> processed[i]]

\* ------------------------------------------------- the summarization loop
Runs == {"a", "b"}

UnableToGenerate == "Unable to generate summary"
ErrorGenerating == "Error generating summary"

\* Reply texts of the generator; a model may answer with any text, one that
\* reads like a sentinel included.
ReplyTexts == {"S1", ErrorGenerating}

\* What llm.run returns: a dict with a replies list (of zero, one or two
\* different texts), or one without it.
Responses ==
    { JObj([replies |-> JArr(r)]) : r \in InjSeqs(ReplyTexts, 2) } \cup { JObj(<<>>) }

\* How one iteration goes: PromptBuilder raises, llm.run raises, or llm.run
\* returns a response.
Raised(where) == [raised |-> where, response |-> JNull]
Returned(resp) == [raised |-> "none", response |-> resp]

LlmOutcomes == { Raised("llm") } \cup { Returned(r) : r \in Responses }

\* The last reply taken instead of the first.
SummaryOfLast(response) ==
    IF Truthy(Get(response, "replies", JNull))
    THEN response.obj["replies"].items[Len(response.obj["replies"].items)]
    ELSE UnableToGenerate

\* `response["replies"][0] if response.get("replies") else "Unable to ..."`
SummaryOf(response) ==
    IF Truthy(Get(response, "replies", JNull))
    THEN response.obj["replies"].items[1]
    ELSE UnableToGenerate

\* An except branch that records no sentinel text.
ProcessDocumentErrorAsEmpty(doc, o) ==
    IF o.raised # "none"
    THEN [document |-> doc, summary |-> ""]
    ELSE [document |-> doc, summary |-> SummaryOf(o.response)]

\* One iteration of the loop, lines 34-58: the dict appended for doc.
ProcessDocument(doc, o) ==
    IF o.raised # "none"
    THEN [document |-> doc, summary |-> ErrorGenerating]
    ELSE [document |-> doc, summary |-> SummaryOf(o.response)]

\* The documents the loop is run on: as the fetcher builds them, one per ID
\* (the pipeline connects hn_fetcher.documents to the loop's documents).
DocPool ==
    { MakeDocument(JObj([type |-> JStr("story"), url |-> JStr(UrlOf(id)),
                         time |-> JNum(0)]), JStr("Text A"), id) : id \in IDs }

\* ------------------------------------------------------------------ Init
\* The requests issued so far: none but n for the index.
NoRequests(n) == [index |-> n, details |-> <<>>, article |-> <<>>]

\* main is not running.
MainIdle ==
    cli = [pc |-> "idle", json |-> FALSE, key |-> "", summaries |-> <<>>,
           out |-> <<>>, err |-> <<>>, status |-> "none"]

IngestIdle ==
    /\ last_k = 1
    /\ pc = "idle"
    /\ session = "closed"
    /\ opened = 0
    /\ requests = NoRequests(0)
    /\ index = Pending
    /\ story_ids = <<>>
    /\ upc = <<>>
    /\ details = <<>>
    /\ article_text = <<>>
    /\ processed = <<>>
    /\ order = <<>>
    /\ documents = <<>>

SumIdle ==
    /\ in_documents = <<>>
    /\ lpc = [r \in Runs |-> "idle"]
    /\ pos = [r \in Runs |-> 0]
    /\ results = [r \in Runs |-> <<>>]
    /\ gen = [r \in Runs |-> <<>>]
    /\ calls = [r \in Runs |-> [j \in 1..Len(in_documents) |-> 0]]
    /\ inflight = [r \in Runs |-> 0]
    /\ differ_at = 0

Init ==
    /\ SumIdle
    /\ last_k \in 1..MaxK
    /\ pc = "index"
    /\ session = "open"
    /\ opened = 1
    /\ requests = NoRequests(1)
    /\ index = Pending
    /\ story_ids = <<>>
    /\ upc = <<>>
    /\ details = <<>>
    /\ article_text = <<>>
    /\ processed = <<>>
    /\ order = <<>>
    /\ documents = <<>>
    /\ MainIdle

\* --------------------------------------------------------------- actions
\* _run_async, lines 166-191: the index request ends; on an error the run
\* returns no documents, otherwise the IDs are sliced and one unit per ID
\* is started under gather.
FetchIndex(o) ==
    /\ pc = "index"
    /\ index' = o
    /\ IF o.err # "none"
       THEN /\ pc' = "returned"
            /\ session' = "closed"
            /\ UNCHANGED << requests, story_ids, upc, details, article_text, processed >>
       ELSE IF SliceRaises(o.body)
       THEN /\ pc' = "raised"
            /\ session' = "closed"
            /\ UNCHANGED << requests, story_ids, upc, details, article_text, processed >>
       ELSE /\ pc' = "gather"
            /\ session' = "open"
            /\ story_ids' = Slice(o.body, last_k)
            /\ requests' = [requests EXCEPT
                    !.details = [i \in 1..Len(story_ids') |-> 1],
                    !.article = [i \in 1..Len(story_ids') |-> 0]]
            /\ upc' = [i \in 1..Len(story_ids') |-> "fetch_details"]
            /\ details' = [i \in 1..Len(story_ids') |-> JNull]
            /\ article_text' = [i \in 1..Len(story_ids') |-> JNull]
            /\ processed' = [i \in 1..Len(story_ids') |-> JNull]
    /\ UNCHANGED << last_k, opened, order, documents, sum_vars, cli >>

\* A request through a session that has been closed can only fail.
Reachable(o) == session = "closed" => o.err = "ClientError"

\* _process_story, lines 125-140: the details of position i arrive; a unit
\* that passes the filters goes on to request the article.
ProcessStoryDetails(i, o) ==
    /\ pc \in {"gather", "propagating"}
    /\ upc[i] = "fetch_details"
    /\ Reachable(o)
    /\ details' = [details EXCEPT ![i] = FetchStoryDetails(o)]
    /\ upc' = [upc EXCEPT ![i] = AfterDetails(details'[i])]
    /\ requests' = [requests EXCEPT
            !.article[i] = IF upc'[i] = "extract" THEN @ + 1 ELSE @]
    /\ order' = IF upc'[i] = "extract" THEN order ELSE Append(order, i)
    /\ UNCHANGED << last_k, pc, session, opened, index, story_ids, article_text,
                    processed, documents, sum_vars, cli >>

\* A unit that asks for the article a second time when the first try gave
\* no text.
ProcessStoryArticleRetrying(i, o) ==
    /\ pc \in {"gather", "propagating"}
    /\ upc[i] = "extract"
    /\ Reachable(o)
    /\ IF ~Truthy(ExtractArticleText(o)) /\ requests.article[i] < 2
       THEN /\ requests' = [requests EXCEPT !.article[i] = @ + 1]
            /\ UNCHANGED << article_text, processed, upc, order >>
       ELSE /\ article_text' = [article_text EXCEPT ![i] = ExtractArticleText(o)]
            /\ processed' = [processed EXCEPT ![i] =
                    IF ~Truthy(article_text'[i]) THEN JNull
                    ELSE MakeDocument(details[i], article_text'[i], story_ids[i])]
            /\ upc' = [upc EXCEPT ![i] = "done"]
            /\ order' = Append(order, i)
            /\ UNCHANGED requests
    /\ UNCHANGED << last_k, pc, session, opened, index, story_ids,
                    details, documents, sum_vars, cli >>

\* _process_story, lines 140-157: the article of position i has been
\* fetched and extracted.
ProcessStoryArticle(i, o) ==
    /\ pc \in {"gather", "propagating"}
    /\ upc[i] = "extract"
    /\ Reachable(o)
    /\ article_text' = [article_text EXCEPT ![i] = ExtractArticleText(o)]
    /\ processed' = [processed EXCEPT ![i] =
            IF ~Truthy(article_text'[i]) THEN JNull
            ELSE MakeDocument(details[i], article_text'[i], story_ids[i])]
    /\ upc' = [upc EXCEPT ![i] = "done"]
    /\ order' = Append(order, i)
    /\ UNCHANGED << last_k, pc, session, opened, requests, index, story_ids,
                    details, documents, sum_vars, cli >>

\* _run_async, lines 191-199: every unit has returned; gather gives their
\* results in the order of the tasks.
GatherReturn ==
    /\ pc = "gather"
    /\ \A i \in Positions : upc[i] = "done"
    /\ documents' = NotNone(Gathered)
    /\ pc' = "returned"
    /\ session' = "closed"
    /\ UNCHANGED << last_k, opened, requests, index, story_ids, upc, details,
                    article_text, processed, order, sum_vars, cli >>

\* _run_async, lines 166 and 191: a unit raised, gather raises its
\* exception at once and the `async with` closes the session on the way
\* out; gather cancels no unit, so the others are still where they were.
GatherRaise ==
    /\ pc = "gather"
    /\ \E i \in Positions : upc[i] = "raised"
    /\ pc' = "propagating"
    /\ session' = "closed"
    /\ UNCHANGED << last_k, opened, requests, index, story_ids, upc, details,
                    article_text, processed, order, documents, sum_vars, cli >>

\* run, line 209: asyncio.run cancels the units that are still pending
\* when _run_async has ended, and raises its exception to the caller.
RunRaise ==
    /\ pc = "propagating"
    /\ pc' = "raised"
    /\ upc' = [i \in Positions |->
                 IF upc[i] \in {"fetch_details", "extract"} THEN "cancelled" ELSE upc[i]]
    /\ UNCHANGED << last_k, session, opened, requests, index, story_ids, details,
                    article_text, processed, order, documents, sum_vars, cli >>

Next ==
    \/ \E o \in IndexOutcomes : FetchIndex(o)
    \/ \E i \in Positions : \E o \in DetailOutcomes(story_ids[i]) : ProcessStoryDetails(i, o)
    \/ \E i \in Positions : \E o \in ArticleOutcomes : ProcessStoryArticle(i, o)
    \/ GatherReturn
    \/ GatherRaise
    \/ RunRaise

Spec == Init /\ [][Next]_vars

\* ------------------------------------------- the summarization loop, run
\* DocumentLoopProcessor.run is entered with a list of documents.
LoopEntered ==
    /\ IngestIdle
    /\ in_documents \in InjSeqs(DocPool, MaxDocs)
    /\ lpc = [r \in Runs |-> IF r = "a" THEN "for" ELSE "idle"]
    /\ pos = [r \in Runs |-> 0]
    /\ results = [r \in Runs |-> <<>>]
    /\ gen = [r \in Runs |-> <<>>]
    /\ calls = [r \in Runs |-> [j \in 1..Len(in_documents) |-> 0]]
    /\ inflight = [r \in Runs |-> 0]
    /\ differ_at = 0

InitSum == LoopEntered /\ MainIdle

\* The document the loop of run r is at.
Current(r) == in_documents[pos[r]]

\* A loop that takes the next document while the call for the last one
\* has not ended.
BuildPromptOverlapping(r, raises) ==
    /\ lpc[r] \in {"for", "llm"}
    /\ pos[r] < Len(in_documents)
    /\ pos' = [pos EXCEPT ![r] = @ + 1]
    /\ lpc' = [lpc EXCEPT ![r] = "llm"]
    /\ calls' = [calls EXCEPT ![r][pos'[r]] = @ + 1]
    /\ inflight' = [inflight EXCEPT ![r] = @ + 1]
    /\ UNCHANGED << results, gen, in_documents, differ_at, ingest_vars, cli >>

\* Lines 33-37 and 52-58: the for takes the next document and its prompt
\* is rendered; a raise is caught and recorded as the error summary.
BuildPrompt(r, raises) ==
    /\ lpc[r] = "for"
    /\ pos[r] < Len(in_documents)
    /\ pos' = [pos EXCEPT ![r] = @ + 1]
    /\ IF raises
       THEN /\ results' = [results EXCEPT
                    ![r] = Append(@, ProcessDocument(in_documents[pos'[r]], Raised("prompt")))]
            /\ gen' = [gen EXCEPT ![r] = Append(@, Raised("prompt"))]
            /\ UNCHANGED << lpc, calls, inflight >>
       ELSE /\ lpc' = [lpc EXCEPT ![r] = "llm"]
            /\ calls' = [calls EXCEPT ![r][pos'[r]] = @ + 1]
            /\ inflight' = [inflight EXCEPT ![r] = @ + 1]
            /\ UNCHANGED << results, gen >>
    /\ UNCHANGED << in_documents, differ_at, ingest_vars, cli >>

\* A loop without the except branch's append: a raise leaves no result.
LlmRunSkipOnError(r, o) ==
    /\ lpc[r] = "llm"
    /\ results' = [results EXCEPT ![r] =
            IF o.raised # "none" THEN @ ELSE Append(@, ProcessDocument(Current(r), o))]
    /\ gen' = [gen EXCEPT ![r] = Append(@, o)]
    /\ lpc' = [lpc EXCEPT ![r] = "for"]
    /\ inflight' = [inflight EXCEPT ![r] = @ - 1]
    /\ UNCHANGED << in_documents, pos, calls, differ_at, ingest_vars, cli >>

\* A loop that a raise ends: the error is recorded and the rest is left out.
LlmRunAbortOnError(r, o) ==
    /\ lpc[r] = "llm"
    /\ results' = [results EXCEPT ![r] = Append(@, ProcessDocument(Current(r), o))]
    /\ gen' = [gen EXCEPT ![r] = Append(@, o)]
    /\ lpc' = [lpc EXCEPT ![r] = IF o.raised # "none" THEN "returned" ELSE "for"]
    /\ inflight' = [inflight EXCEPT ![r] = @ - 1]
    /\ UNCHANGED << in_documents, pos, calls, differ_at, ingest_vars, cli >>

\* Lines 40-58: llm.run ends, by returning a response or by raising; the
\* result of the document is appended and the loop goes on.
LlmRun(r, o) ==
    /\ lpc[r] = "llm"
    /\ results' = [results EXCEPT ![r] = Append(@, ProcessDocument(Current(r), o))]
    /\ gen' = [gen EXCEPT ![r] = Append(@, o)]
    /\ lpc' = [lpc EXCEPT ![r] = "for"]
    /\ inflight' = [inflight EXCEPT ![r] = @ - 1]
    /\ UNCHANGED << in_documents, pos, calls, differ_at, ingest_vars, cli >>

\* A loop whose end test is off by one: it is never over.
LoopReturnOffByOne(r) ==
    /\ lpc[r] = "for"
    /\ pos[r] > Len(in_documents)
    /\ lpc' = [lpc EXCEPT ![r] = "returned"]
    /\ UNCHANGED << in_documents, pos, results, gen, calls, inflight, differ_at,
                    ingest_vars, cli >>

\* Line 60: the for is exhausted and the results are returned.
LoopReturn(r) ==
    /\ lpc[r] = "for"
    /\ pos[r] = Len(in_documents)
    /\ lpc' = [lpc EXCEPT ![r] = "returned"]
    /\ UNCHANGED << in_documents, pos, results, gen, calls, inflight, differ_at,
                    ingest_vars, cli >>

NextSum ==
    \/ \E raises \in BOOLEAN : BuildPrompt("a", raises)
    \/ \E o \in LlmOutcomes : LlmRun("a", o)
    \/ LoopReturn("a")

SpecSum == InitSum /\ [][NextSum]_vars

\* -------------------------------------------- either component, run once
\* The pipeline runs the fetcher and then the loop; a behaviour is one run
\* of one of the two.
InitRuns == Init \/ InitSum

NextRuns == Next \/ NextSum

SpecRuns == InitRuns /\ [][NextRuns]_vars

\* Every request answers or hits its timeout (timeout=5 and timeout=10 on
\* the session.get calls), every llm.run returns or raises, and the event
\* loop runs whatever is ready: a step that can be taken is taken.
FairRuns == SpecRuns /\ WF_vars(Next) /\ WF_vars(NextSum)

\* ------------------------------------- two runs over the same documents
Failed(o) == o.raised # "none" \/ ~Truthy(Get(o.response, "replies", JNull))

\* Run b has met the outcomes of run a everywhere but at differ_at, where
\* the two differ and one of them is a failure.
OnlyDifferAt ==
    \A j \in 1..Len(gen["b"]) :
        /\ j <= Len(gen["a"])
        /\ j # differ_at => gen["b"][j] = gen["a"][j]
        /\ j = differ_at =>
              /\ gen["b"][j] # gen["a"][j]
              /\ Failed(gen["a"][j]) \/ Failed(gen["b"][j])

InitPair ==
    /\ IngestIdle
    /\ in_documents \in InjSeqs(DocPool, MaxDocs)
    /\ lpc = [r \in Runs |-> "for"]
    /\ pos = [r \in Runs |-> 0]
    /\ results = [r \in Runs |-> <<>>]
    /\ gen = [r \in Runs |-> <<>>]
    /\ calls = [r \in Runs |-> [j \in 1..Len(in_documents) |-> 0]]
    /\ inflight = [r \in Runs |-> 0]
    /\ differ_at \in 1..Len(in_documents)
    /\ MainIdle

\* The component makes one run at a time: run b starts once run a is over.
InTurn(r) == r = "b" => lpc["a"] = "returned"

BuildPromptPair(r, raises) == InTurn(r) /\ BuildPrompt(r, raises) /\ OnlyDifferAt'

LlmRunPair(r, o) == InTurn(r) /\ LlmRun(r, o) /\ OnlyDifferAt'

NextPair ==
    \/ \E r \in Runs : \E raises \in BOOLEAN : BuildPromptPair(r, raises)
    \/ \E r \in Runs : \E o \in LlmOutcomes : LlmRunPair(r, o)
    \/ \E r \in Runs : LoopReturn(r)

SpecPair == InitPair /\ [][NextPair]_vars

\* ------------------------------------------------------------------ main
\* The values of OPENAI_API_KEY: unset or empty, and set.
ApiKeys == {"", "sk-test"}

\* Line 4: what `import json` binds the name json to at module level.
JsonModule == [kind |-> "module", attrs |-> {"dumps", "loads"}]

\* Line 48: inside main the name json is the parameter that click fills
\* from the --json flag; it hides the module of line 4.
JsonInMain(flag) ==
    LET locals == [json |-> [kind |-> "bool", b |-> flag]]
        globals == [json |-> JsonModule]
    IN  IF "json" \in DOMAIN locals THEN locals["json"] ELSE globals["json"]

\* Attribute lookup: a bool has no attribute of these names.
HasAttr(v, a) == v.kind = "module" /\ a \in v.attrs

\* json.dumps(summaries, indent=2) of the module: the array as text.
Dumps(summaries) == [kind |-> "json_array", items |-> summaries]

\* Lines 91-112: the object made of one result of the loop.
SummaryEntry(item) ==
    [ title |-> item.document.meta.title,
      url |-> item.document.meta.url,
      score |-> item.document.meta.score,
      comments |-> item.document.meta.descendants,
      summary |-> item.summary,
      time_iso |-> item.document.meta.time_iso,
      by |-> item.document.meta.by ]

\* Lines 87-112
Summaries(rs) == [j \in 1..Len(rs) |-> SummaryEntry(rs[j])]

\* Lines 123-150: the pretty text, one block per summary between a header
\* and a footer, or the one line that says there is none.
Pretty(summaries) ==
    IF summaries # <<>>
    THEN << [kind |-> "header"] >>
         \o [j \in 1..Len(summaries) |->
               [kind |-> "block", n |-> j, title |-> summaries[j].title,
                score |-> summaries[j].score, comments |-> summaries[j].comments,
                summary |-> summaries[j].summary, url |-> summaries[j].url]]
         \o << [kind |-> "footer"] >>
    ELSE << [kind |-> "no_summaries"] >>

\* main is called by click with its options; the pipeline has its documents
\* at hand once it is run.
InitMain ==
    /\ LoopEntered
    /\ \E flag \in BOOLEAN : \E k \in ApiKeys :
          cli = [pc |-> "start", json |-> flag, key |-> k, summaries |-> <<>>,
                 out |-> <<>>, err |-> <<>>, status |-> "running"]

\* Lines 57-72: without a key main aborts; with one it builds the pipeline.
CheckKey ==
    /\ cli.pc = "start"
    /\ cli' = IF cli.key = ""
              THEN [cli EXCEPT !.pc = "exit", !.status = "aborted",
                               !.err = << "OPENAI_API_KEY not set" >>]
              ELSE [cli EXCEPT !.pc = "pipeline"]
    /\ UNCHANGED << ingest_vars, sum_vars >>

\* Line 78: pipeline.run is running.
InPipeline == cli.pc = "pipeline"

\* Lines 78-85: pipeline.run raises (the fetcher's run has raised before
\* the loop got a document); main reports it and aborts.
PipelineRaises ==
    /\ InPipeline
    /\ lpc["a"] = "for"
    /\ pos["a"] = 0
    /\ cli' = [cli EXCEPT !.pc = "exit", !.status = "aborted",
                          !.err = << "An error occurred during pipeline execution" >>]
    /\ UNCHANGED << ingest_vars, sum_vars >>

\* Lines 87-150: pipeline.run has returned; the summaries are collected
\* and echoed, as JSON or as pretty text.
Output ==
    /\ InPipeline
    /\ lpc["a"] = "returned"
    /\ LET summaries == Summaries(results["a"])
       IN  cli' =
             IF cli.json
             THEN IF HasAttr(JsonInMain(cli.json), "dumps")
                  THEN [cli EXCEPT !.pc = "exit", !.status = "ok",
                                   !.summaries = summaries,
                                   !.out = << Dumps(summaries) >>]
                  ELSE [cli EXCEPT !.pc = "exit", !.status = "AttributeError",
                                   !.summaries = summaries]
             ELSE [cli EXCEPT !.pc = "exit", !.status = "ok",
                              !.summaries = summaries,
                              !.out = Pretty(summaries)]
    /\ UNCHANGED << ingest_vars, sum_vars >>

NextMain ==
    \/ CheckKey
    \/ \E raises \in BOOLEAN : InPipeline /\ BuildPrompt("a", raises)
    \/ \E o \in LlmOutcomes : InPipeline /\ LlmRun("a", o)
    \/ InPipeline /\ LoopReturn("a")
    \/ PipelineRaises
    \/ Output

SpecMain == InitMain /\ [][NextMain]_vars

\* ======================================================== the ingestion run
IsDocument(v) == v # JNull

\* The details are a record of type "story" with a present, non-empty url.
IsStoryWithUrl(d) ==
    /\ d.kind = "object"
    /\ "type" \in DOMAIN d.obj
    /\ d.obj["type"] = JStr("story")
    /\ "url" \in DOMAIN d.obj
    /\ d.obj["url"].kind = "string"
    /\ d.obj["url"].s # ""

\* The extraction of position p returned non-empty text.
HasText(p) == article_text[p].kind = "string" /\ article_text[p].s # ""

Qualifies(p) == IsStoryWithUrl(details[p]) /\ HasText(p)

\* Where position p ended in the completion order (0: not yet).
EndedAt(p) ==
    IF \E k \in 1..Len(order) : order[k] = p
    THEN CHOOSE k \in 1..Len(order) : order[k] = p
    ELSE 0

\* C1: in the returned list the Documents stand in the order of their IDs
\* in the truncated index result: if positions p < q both yield a Document,
\* p's Document is in the list before q's, and nowhere after it, whatever
\* order the units ended in.
C1_OrderPreserved ==
    pc = "returned" =>
        \A p, q \in Positions :
            (p < q /\ IsDocument(processed[p]) /\ IsDocument(processed[q])) =>
                /\ \E m, n \in 1..Len(documents) :
                      m < n /\ documents[m] = processed[p] /\ documents[n] = processed[q]
                /\ \A m, n \in 1..Len(documents) :
                      (documents[m] = processed[p] /\ documents[n] = processed[q]) => m < n

\* Two Documents are returned and the unit of the later ID ended first.
C1_Witness ==
    /\ pc = "returned"
    /\ \E p, q \in Positions :
          /\ p < q
          /\ IsDocument(processed[p]) /\ IsDocument(processed[q])
          /\ EndedAt(q) < EndedAt(p)

\* C2: once the index request has answered with a list of IDs, no outcome
\* of a unit makes the run raise.
C2_UnitFailuresAbsorbed ==
    (index.err = "none" /\ index.body.kind = "array") => pc # "raised"

\* C3: an index request that fails, answers with a body that is no list of
\* IDs, or answers with the empty list, ends in an empty result: the run
\* does not raise, starts no unit and returns no Document.
C3_IndexFailureGivesEmpty ==
    ( /\ index # Pending
      /\ \/ index.err # "none"
         \/ index.body.kind # "array"
         \/ index.body.items = <<>> )
    => (pc # "raised" /\ upc = <<>> /\ documents = <<>>)

\* C4: every Document, returned or produced by a unit, comes from a position
\* whose details are of type "story" with a non-empty url, and its content
\* is the non-empty text extracted for that position; a position whose
\* details are anything else, or whose extraction gave no text, has no
\* Document.
C4_DocumentsAreLinkedStories ==
    /\ \A m \in 1..Len(documents) :
          \E p \in Positions : IsDocument(processed[p]) /\ documents[m] = processed[p]
    /\ \A p \in Positions :
          IsDocument(processed[p]) =>
              /\ Qualifies(p)
              /\ processed[p].content = article_text[p].s
              /\ processed[p].content # ""
    /\ \A p \in Positions :
          ~Qualifies(p) =>
              /\ ~IsDocument(processed[p])
              /\ \A m \in 1..Len(documents) : documents[m].meta.id # story_ids[p]

\* One Document is returned while a job with a url, in the same run, gave none.
C4_Witness ==
    /\ pc = "returned"
    /\ Len(documents) = 1
    /\ \E q \in Positions :
          details[q] = JObj([type |-> JStr("job"), url |-> JStr(UrlOf(story_ids[q]))])

\* C5: when the run is over, every position whose details are a story with
\* a non-empty url and whose extraction returned text has exactly one
\* Document in the output, carrying its ID, url and text, and the output
\* holds no other Document.
C5_CompleteOutput ==
    pc \in {"returned", "raised"} =>
        /\ \A p \in Positions :
              Qualifies(p) =>
                  Cardinality({ m \in 1..Len(documents) :
                      /\ documents[m].meta.id = story_ids[p]
                      /\ documents[m].meta.url = details[p].obj["url"].s
                      /\ documents[m].content = article_text[p].s }) = 1
        /\ Len(documents) = Cardinality({ p \in Positions : Qualifies(p) })

\* C6: at most last_k units are started, one per entry of the first last_k
\* index entries, and at most last_k Documents are returned.
C6_AtMostK ==
    /\ Len(upc) <= last_k
    /\ Len(documents) <= last_k
    /\ Len(upc) = Len(story_ids)
    /\ (index.err = "none" /\ index.body.kind = "array") =>
          /\ Len(story_ids) <= Len(index.body.items)
          /\ \A i \in Positions : story_ids[i] = index.body.items[i]

\* The index holds more than last_k IDs and last_k Documents are returned.
C6_Witness ==
    /\ pc = "returned"
    /\ index.err = "none"
    /\ index.body.kind = "array"
    /\ Len(index.body.items) > last_k
    /\ Len(documents) = last_k

\* The unit of position i has neither returned nor raised yet.
UnitPending(i) == upc[i] \in {"fetch_details", "extract"}

\* C11: the run does not end, by returning or by raising, before every
\* unit it started has ended on its own, and no unit is ever cancelled.
C11_AllUnitsConclude ==
    /\ pc \in {"returned", "raised"} =>
          \A i \in Positions : upc[i] \in {"done", "raised"}
    /\ \A i \in Positions : upc[i] # "cancelled"

\* C15: one session is opened per run, it is closed when the run is over,
\* and no unit is waiting on a request once it has been closed.
C15_SessionScoped ==
    /\ opened = 1
    /\ pc \in {"returned", "raised"} => session = "closed"
    /\ session = "closed" => \A i \in Positions : ~UnitPending(i)

\* C16: the article of a position is requested only once its details have
\* been fetched and are a story with a non-empty url; a position whose
\* details are still awaited, are absent, are of another type or have no
\* url has no article request.
C16_ArticleAfterFilter ==
    \A p \in Positions :
        /\ requests.article[p] > 0 => IsStoryWithUrl(details[p])
        /\ upc[p] = "fetch_details" => requests.article[p] = 0
        /\ upc[p] = "extract" => requests.article[p] > 0
        /\ article_text[p] # JNull => requests.article[p] > 0

\* One position has had its article requested and another, a job with a
\* url, has ended without a request.
C16_Witness ==
    \E p, q \in Positions :
        /\ requests.article[p] = 1
        /\ upc[p] = "done"
        /\ details[q] = JObj([type |-> JStr("job"), url |-> JStr(UrlOf(story_ids[q]))])
        /\ upc[q] = "done"
        /\ requests.article[q] = 0

\* ================================================== the summarization run
\* The generation call of outcome o returned at least one reply.
HasReplies(o) ==
    /\ o.raised = "none"
    /\ "replies" \in DOMAIN o.response.obj
    /\ o.response.obj["replies"].items # <<>>

\* C7: the run returns exactly one result per input document, the i-th
\* result holding the i-th input Document unchanged, whatever the
\* generation outcomes were; while the loop runs, every document taken so
\* far has its result.
C7_OneResultPerDocument ==
    /\ Len(results["a"]) <= Len(in_documents)
    /\ \A j \in 1..Len(results["a"]) : results["a"][j].document = in_documents[j]
    /\ lpc["a"] = "for" => Len(results["a"]) = pos["a"]
    /\ lpc["a"] = "returned" => Len(results["a"]) = Len(in_documents)

\* A run over two documents has returned after a raise on the first and a
\* call that gave zero replies on the second.
C7_Witness ==
    /\ lpc["a"] = "returned"
    /\ Len(in_documents) = 2
    /\ gen["a"][1].raised = "llm"
    /\ gen["a"][2] = Returned(JObj([replies |-> JArr(<<>>)]))

\* C8: of two runs over the same documents whose generation outcomes
\* differ only at one position, where one of them fails, the results of
\* every other position are the same, and each run, once returned, has a
\* result for every document.
C8_FailureIsolated ==
    /\ \A j \in 1..Min(Len(results["a"]), Len(results["b"])) :
          j # differ_at => results["a"][j] = results["b"][j]
    /\ \A r \in Runs : lpc[r] = "returned" => Len(results[r]) = Len(in_documents)

\* Both runs have returned; at the first of two documents run a failed by
\* a raise and run b got a reply, and the results there differ.
C8_Witness ==
    /\ lpc["a"] = "returned" /\ lpc["b"] = "returned"
    /\ Len(in_documents) = 2
    /\ differ_at = 1
    /\ gen["a"][1].raised # "none"
    /\ HasReplies(gen["b"][1])
    /\ results["a"][1] # results["b"][1]
    /\ results["a"][2] = results["b"][2]

\* C9: the summary recorded for a document is the first reply when the
\* call returned replies, "Unable to generate summary" when it returned
\* none, and "Error generating summary" when rendering or the call raised.
C9_SummaryByOutcome ==
    \A j \in 1..Len(results["a"]) :
        LET o == gen["a"][j]
            summary == results["a"][j].summary
        IN  /\ HasReplies(o) => summary = o.response.obj["replies"].items[1]
            /\ (o.raised = "none" /\ ~HasReplies(o)) => summary = "Unable to generate summary"
            /\ o.raised # "none" => summary = "Error generating summary"

\* The first of two replies was taken for one document and a call without
\* replies got its sentinel for the next.
C9_Witness ==
    /\ Len(results["a"]) = 2
    /\ gen["a"][1] = Returned(JObj([replies |-> JArr(<<"S1", ErrorGenerating>>)]))
    /\ results["a"][1].summary = "S1"
    /\ gen["a"][2] = Returned(JObj(<<>>))
    /\ results["a"][2].summary = "Unable to generate summary"

C12_OneCallAtATime ==
    /\ inflight["a"] <= 1
    /\ lpc["a"] = "llm" => (inflight["a"] = 1 /\ Len(results["a"]) = pos["a"] - 1)
    /\ lpc["a"] # "llm" => (inflight["a"] = 0 /\ Len(results["a"]) = pos["a"])
    /\ \A j \in 1..Len(results["a"]) : results["a"][j].document = in_documents[j]
    /\ \A j \in 1..Len(in_documents) : calls["a"][j] > 0 => j <= pos["a"]

\* The call for the second document is in flight and the first has its result.
C12_Witness ==
    /\ lpc["a"] = "llm"
    /\ pos["a"] = 2
    /\ Len(results["a"]) = 1
    /\ inflight["a"] = 1

\* ============================================================= either run
\* C14: no call is repeated: the index is requested at most once, each
\* position has one details request and at most one article request, and
\* each document has at most one generation call.
C14_NoCallRepeated ==
    /\ requests.index <= 1
    /\ Len(requests.details) = Len(story_ids)
    /\ \A i \in Positions : requests.details[i] = 1 /\ requests.article[i] <= 1
    /\ \A j \in 1..Len(in_documents) : calls["a"][j] <= 1

\* A run has returned after an article request that failed, with one
\* request made for it.
C14_Witness ==
    /\ pc = "returned"
    /\ \E p \in Positions :
          /\ IsStoryWithUrl(details[p])
          /\ article_text[p] = JNull
          /\ requests.details[p] = 1
          /\ requests.article[p] = 1

\* The ingestion run is over: it has returned or raised and no unit is pending.
IngestOver ==
    /\ pc \in {"returned", "raised"}
    /\ \A i \in Positions : ~UnitPending(i)

\* The summarization run is over: it has returned a result for every document.
SumOver ==
    /\ pc = "idle"
    /\ lpc["a"] = "returned"
    /\ Len(results["a"]) = Len(in_documents)

\* The steps a unit has left: one for its details, one for its article.
UnitSteps(i) ==
    CASE upc[i] = "fetch_details" -> 2
      [] upc[i] = "extract" -> 1
      [] OTHER -> 0

RECURSIVE UnitStepsUpTo(_)
UnitStepsUpTo(n) == IF n = 0 THEN 0 ELSE UnitSteps(n) + UnitStepsUpTo(n - 1)

\* An upper limit of the steps the ingestion run has left.
IngestSteps ==
    CASE pc = "index" -> 3 + 2 * last_k
      [] pc = "gather" -> 2 + UnitStepsUpTo(Len(story_ids))
      [] pc = "propagating" -> 1 + UnitStepsUpTo(Len(story_ids))
      [] OTHER -> 0

\* An upper limit of the steps the summarization run has left.
SumSteps ==
    CASE lpc["a"] = "for" -> 1 + 2 * (Len(in_documents) - pos["a"])
      [] lpc["a"] = "llm" -> 2 + 2 * (Len(in_documents) - pos["a"])
      [] OTHER -> 0

\* C17: when every request and every generation call ends, every unit
\* ends, the ingestion run ends, and the summarization run returns after
\* handling every document: a run that is not over can take a step, and
\* every step brings the run nearer to its end by at least one.
C17_Terminates ==
    /\ [](IngestOver \/ SumOver \/ ENABLED NextRuns)
    /\ [][IngestSteps' + SumSteps' < IngestSteps + SumSteps]_vars

\* An ingestion run of two units is over, one of them after a timeout of
\* its details request.
C17_Witness ==
    /\ IngestOver
    /\ Len(story_ids) = 2
    /\ \E p \in Positions : upc[p] = "done" /\ details[p] = JNull

\* =================================================================== main
\* C13: with --json, once the pipeline has returned, main has echoed the
\* summaries as one JSON array, an object per result of the loop and in
\* the order of the results, and has ended without an error.
C13_JsonOutput ==
    (cli.pc = "exit" /\ cli.json /\ lpc["a"] = "returned") =>
        /\ cli.status = "ok"
        /\ cli.out = << Dumps(Summaries(results["a"])) >>

====
